---------------------------- MODULE Spec2Model ----------------------------
(***************************************************************************)
(* FarmTech ESP32 irrigation controller (main.cpp): setup() followed by    *)
(* the endless loop() that reads the sensors, validates the DHT reading,   *)
(* runs the decision cascade, drives the pump relay, reports and sleeps.   *)
(*                                                                         *)
(* Representation of the C++ values:                                       *)
(*  - float humidity / temperature / pH are fixed-point integers in tenths *)
(*    (the DHT22 resolution is 0.1; the thresholds 4.5 .. 30.0 are all     *)
(*    exact in tenths), so 15.0 is 150 and pH 6.5 is 65;                   *)
(*  - the float NaN is the value NAN, which compares false with anything;  *)
(*  - pin levels HIGH / LOW are TRUE / FALSE;                              *)
(*  - String values are TLA+ strings, with String(float) already expanded  *)
(*    to its two-decimal text ("15.00").                                   *)
(***************************************************************************)
EXTENDS Integers, Sequences, FiniteSets, TLC

VARIABLES
    pc,                 \* position of the single thread of control
    releBomba,          \* level of the output pin PINO_RELE_BOMBA
    fosforoPresente,    \* locals of loop(), lines 40-49
    potassioPresente,
    valorLDR,
    phEstimado,
    umidade,
    temperatura,
    ligarBomba,
    motivoDecisao,
    releAntes,          \* level of the relay pin when the current loop() call began
    passos,             \* the I/O operations done so far by the current call
    ref                 \* a remembered earlier valid cycle, or NENHUM

vars == <<pc, releBomba, fosforoPresente, potassioPresente, valorLDR, phEstimado,
          umidade, temperatura, ligarBomba, motivoDecisao, releAntes, passos, ref>>

locais == <<fosforoPresente, potassioPresente, valorLDR, phEstimado,
            umidade, temperatura, ligarBomba, motivoDecisao>>

---------------------------------------------------------------------------
(* Values of the platform *)

HIGH == TRUE
LOW  == FALSE

NAN == 99999

isnan(x) == x = NAN

\* IEEE comparisons: every comparison with a NaN operand is false.
FloatLt(a, b) == ~isnan(a) /\ ~isnan(b) /\ a < b
FloatGt(a, b) == ~isnan(a) /\ ~isnan(b) /\ a > b
FloatLe(a, b) == ~isnan(a) /\ ~isnan(b) /\ a <= b
FloatGe(a, b) == ~isnan(a) /\ ~isnan(b) /\ a >= b

\* Range of analogRead on the 12-bit ADC, the in_max of the map call.
ADC_MAX == 4095

\* The out_max of the map call: the double 14.0 converted to the long 14.
PH_MAX == 14

---------------------------------------------------------------------------
(* Thresholds, lines 15-21, in tenths *)

UMIDADE_MINIMA_PARA_IRRIGAR  == 200
UMIDADE_ALTA_PARAR_IRRIGACAO == 300
UMIDADE_CRITICA_BAIXA        == 150
PH_IDEAL_MINIMO   == 55
PH_IDEAL_MAXIMO   == 65
PH_CRITICO_MINIMO == 45
PH_CRITICO_MAXIMO == 75

---------------------------------------------------------------------------
(* Bounds of the model: the strides with which the input ranges are sampled *)

RawStride     == 150
UmidadeStride == 100

\* Raw ADC readings tried: a stride through [0, ADC_MAX] plus the end points,
\* mid-scale and a few readings whose exact rescale is fractional.
RawSamples ==
    {r \in 0..ADC_MAX : r % RawStride = 0} \cup {0, 1000, 1317, 1609, 2048, 2193, ADC_MAX}

\* Humidity readings tried (tenths of a percent): a stride through [0, 100.0]
\* plus each threshold with its two neighbours, plus a failed read.
UmidadeSamples ==
    {h \in 0..1000 : h % UmidadeStride = 0}
        \cup {149, 150, 151, 199, 200, 201, 299, 300, 301} \cup {NAN}

\* Temperature readings tried (tenths of a degree), plus a failed read.
TemperaturaSamples == {-35, 248, NAN}

NENHUM == [valido |-> FALSE]

---------------------------------------------------------------------------
(* Line 43: float phEstimado = map(valorLDR, 0, 4095, 0.0, 14.0);          *)
(* Arduino's map is long map(long, long, long, long, long): the arguments  *)
(* 0.0 and 14.0 are converted to long, the arithmetic is integer and the   *)
(* quotient is truncated; the long result is then converted to float.      *)

map(x, in_min, in_max, out_min, out_max) ==
    ((x - in_min) * (out_max - out_min)) \div (in_max - in_min) + out_min

\* The float stored in phEstimado, in tenths.
PhDe_DezBits(raw) == 10 * map(raw, 0, 1023, 0, PH_MAX)

PhDe(raw) == 10 * map(raw, 0, ADC_MAX, 0, PH_MAX)

---------------------------------------------------------------------------
(* The conditions of the cascade, lines 62-88 *)

EmergenciaUmidade_Le(u) == FloatLe(u, UMIDADE_CRITICA_BAIXA)

EmergenciaUmidade(u) == FloatLt(u, UMIDADE_CRITICA_BAIXA)

PhCritico_SoMinimo(ph) == FloatLt(ph, PH_CRITICO_MINIMO)

PhCritico(ph) == FloatLt(ph, PH_CRITICO_MINIMO) \/ FloatGt(ph, PH_CRITICO_MAXIMO)

UmidadeBaixa_AteAlta(u) == FloatLt(u, UMIDADE_ALTA_PARAR_IRRIGACAO)

UmidadeBaixa(u) == FloatLt(u, UMIDADE_MINIMA_PARA_IRRIGAR)

PhIdeal_FaixaCritica(ph) == FloatGe(ph, PH_CRITICO_MINIMO) /\ FloatLe(ph, PH_CRITICO_MAXIMO)

PhIdeal_Estrito(ph) == FloatGt(ph, PH_IDEAL_MINIMO) /\ FloatLt(ph, PH_IDEAL_MAXIMO)

PhIdeal(ph) == FloatGe(ph, PH_IDEAL_MINIMO) /\ FloatLe(ph, PH_IDEAL_MAXIMO)

UmidadeAlta(u) == FloatGt(u, UMIDADE_ALTA_PARAR_IRRIGACAO)

(* The reason strings, lines 49-95 *)

MOTIVO_INICIAL    == "Condicoes normais, bomba desligada."
MOTIVO_EMERGENCIA == "EMERGENCIA: Umidade critica baixa (<15.00%)."
MOTIVO_PH_CRITICO == "Bomba DESLIGADA: pH critico (fora de 4.50-7.50)."
MOTIVO_NORMAL     == "Bomba LIGADA: Umidade baixa, pH ideal, P e K presentes (irrig. normal)."
MOTIVO_REDUZIDA   == "Bomba LIGADA: Umidade baixa, pH ideal, P ou K presente (irrig. reduzida)."
MOTIVO_MINIMA     == "Bomba LIGADA: Umidade baixa, pH ideal, P e K ausentes (irrig. minima)."
MOTIVO_PH_FORA    == "Bomba DESLIGADA: Umidade baixa, mas pH fora da faixa ideal (entre 5.50-6.50)."
MOTIVO_ALTA       == "Bomba DESLIGADA: Umidade alta (>30.00%)."
MOTIVO_OK         == "Condicoes de umidade OK, bomba permanece desligada."

\* Lines 73-87: the branch taken when the humidity is low but not critical
\* and the pH is not critical.
RamoUmidadeBaixa_SemNutrientes(ph, p, k) ==
    IF PhIdeal(ph) THEN
        IF p /\ k THEN
            [ligar |-> TRUE, motivo |-> MOTIVO_NORMAL]
        ELSE IF p \/ k THEN
            [ligar |-> TRUE, motivo |-> MOTIVO_REDUZIDA]
        ELSE
            [ligar |-> FALSE, motivo |-> MOTIVO_MINIMA]
    ELSE
        [ligar |-> FALSE, motivo |-> MOTIVO_PH_FORA]

RamoUmidadeBaixa(ph, p, k) ==
    IF PhIdeal(ph) THEN
        IF p /\ k THEN
            [ligar |-> TRUE, motivo |-> MOTIVO_NORMAL]
        ELSE IF p \/ k THEN
            [ligar |-> TRUE, motivo |-> MOTIVO_REDUZIDA]
        ELSE
            [ligar |-> TRUE, motivo |-> MOTIVO_MINIMA]
    ELSE
        [ligar |-> FALSE, motivo |-> MOTIVO_PH_FORA]

\* Lines 61-96: the values of ligarBomba and motivoDecisao after the cascade.
Decisao_PhPrimeiro(u, ph, p, k) ==
    IF PhCritico(ph) THEN
        [ligar |-> FALSE, motivo |-> MOTIVO_PH_CRITICO]
    ELSE IF EmergenciaUmidade(u) THEN
        [ligar |-> TRUE, motivo |-> MOTIVO_EMERGENCIA]
    ELSE IF UmidadeBaixa(u) THEN
        RamoUmidadeBaixa(ph, p, k)
    ELSE IF UmidadeAlta(u) THEN
        [ligar |-> FALSE, motivo |-> MOTIVO_ALTA]
    ELSE
        [ligar |-> FALSE, motivo |-> MOTIVO_OK]

Decisao(u, ph, p, k) ==
    IF EmergenciaUmidade(u) THEN
        [ligar |-> TRUE, motivo |-> MOTIVO_EMERGENCIA]
    ELSE IF PhCritico(ph) THEN
        [ligar |-> FALSE, motivo |-> MOTIVO_PH_CRITICO]
    ELSE IF UmidadeBaixa(u) THEN
        RamoUmidadeBaixa(ph, p, k)
    ELSE IF UmidadeAlta(u) THEN
        [ligar |-> FALSE, motivo |-> MOTIVO_ALTA]
    ELSE
        [ligar |-> FALSE, motivo |-> MOTIVO_OK]

---------------------------------------------------------------------------
(* I/O operations recorded in passos *)

Op(nome, arg) == [op |-> nome, arg |-> arg]

Nivel(b) == IF b THEN "HIGH" ELSE "LOW"

AVISO_DHT == "!! ATENCAO: Falha ao ler sensor DHT. Logica de irrigacao pausada. !!"

---------------------------------------------------------------------------
(* The locals of loop() exist only during a call: outside a call they hold *)
(* these fixed values.                                                     *)

ForaDeEscopo ==
    /\ fosforoPresente = FALSE
    /\ potassioPresente = FALSE
    /\ valorLDR = 0
    /\ phEstimado = 0
    /\ umidade = NAN
    /\ temperatura = NAN
    /\ ligarBomba = FALSE
    /\ motivoDecisao = MOTIVO_INICIAL

\* Return from loop(): the locals go out of scope.
SairDoEscopo ==
    /\ fosforoPresente' = FALSE
    /\ potassioPresente' = FALSE
    /\ valorLDR' = 0
    /\ phEstimado' = 0
    /\ umidade' = NAN
    /\ temperatura' = NAN
    /\ ligarBomba' = FALSE
    /\ motivoDecisao' = MOTIVO_INICIAL

(* State after power-on, before setup() runs: the output pin is low and    *)
(* nothing has been read.                                                  *)

Init ==
    /\ pc = "setup"
    /\ releBomba = LOW
    /\ ForaDeEscopo
    /\ releAntes = LOW
    /\ passos = <<>>
    /\ ref = NENHUM

\* setup(), lines 23-36.
Setup ==
    /\ pc = "setup"
    /\ releBomba' = LOW
    /\ passos' = <<Op("digitalWrite", Nivel(LOW)), Op("delay", "2000")>>
    /\ pc' = "ler"
    /\ UNCHANGED <<locais, releAntes>>

\* loop(), lines 40-49: one reading of every sensor and the two initialisations.
LerSensores(raws, umidades, temperaturas) ==
    /\ pc = "ler"
    /\ \E p \in BOOLEAN, k \in BOOLEAN, r \in raws, u \in umidades, t \in temperaturas :
          /\ fosforoPresente' = p
          /\ potassioPresente' = k
          /\ valorLDR' = r
          /\ phEstimado' = PhDe(r)
          /\ umidade' = u
          /\ temperatura' = t
    /\ ligarBomba' = FALSE
    /\ motivoDecisao' = MOTIVO_INICIAL
    /\ releAntes' = releBomba
    /\ passos' = <<Op("leitura", "sensores")>>
    /\ pc' = "validar"
    /\ UNCHANGED releBomba

\* Lines 52-54: the DHT reading failed; warn and switch the pump off.
FalhaDHT_SemDesligar ==
    /\ pc = "validar"
    /\ isnan(umidade) \/ isnan(temperatura)
    /\ passos' = Append(passos, Op("Serial.println", AVISO_DHT))
    /\ pc' = "esperar_falha"
    /\ UNCHANGED <<releBomba, locais, releAntes>>

FalhaDHT ==
    /\ pc = "validar"
    /\ isnan(umidade) \/ isnan(temperatura)
    /\ releBomba' = LOW
    /\ passos' = passos \o <<Op("Serial.println", AVISO_DHT), Op("digitalWrite", Nivel(LOW))>>
    /\ pc' = "esperar_falha"
    /\ UNCHANGED <<locais, releAntes>>

\* Lines 55-56: delay(2000); return.
RetornarFalha_SemReturn ==
    /\ pc = "esperar_falha"
    /\ passos' = Append(passos, Op("delay", "2000"))
    /\ pc' = "decidir"
    /\ UNCHANGED <<releBomba, locais, releAntes>>

RetornarFalha ==
    /\ pc = "esperar_falha"
    /\ passos' = Append(passos, Op("delay", "2000"))
    /\ pc' = "ler"
    /\ SairDoEscopo
    /\ UNCHANGED <<releBomba, releAntes>>

\* Line 52, condition false: the readings are valid.
LeituraValida ==
    /\ pc = "validar"
    /\ ~(isnan(umidade) \/ isnan(temperatura))
    /\ pc' = "decidir"
    /\ UNCHANGED <<releBomba, locais, releAntes, passos>>

\* Lines 61-96: the decision cascade.
Decidir_Histerese ==
    /\ pc = "decidir"
    /\ LET d == Decisao(umidade, phEstimado, fosforoPresente, potassioPresente)
       IN  /\ ligarBomba' = (IF d.motivo = MOTIVO_OK THEN releBomba ELSE d.ligar)
           /\ motivoDecisao' = d.motivo
    /\ passos' = Append(passos, Op("cascata", "avaliada"))
    /\ pc' = "acionar"
    /\ UNCHANGED <<releBomba, fosforoPresente, potassioPresente, valorLDR, phEstimado,
                   umidade, temperatura, releAntes>>

Decidir_SemGeada ==
    /\ pc = "decidir"
    /\ LET d == Decisao(umidade, phEstimado, fosforoPresente, potassioPresente)
       IN  /\ ligarBomba' = (d.ligar /\ FloatGe(temperatura, 0))
           /\ motivoDecisao' = d.motivo
    /\ passos' = Append(passos, Op("cascata", "avaliada"))
    /\ pc' = "acionar"
    /\ UNCHANGED <<releBomba, fosforoPresente, potassioPresente, valorLDR, phEstimado,
                   umidade, temperatura, releAntes>>

Decidir ==
    /\ pc = "decidir"
    /\ LET d == Decisao(umidade, phEstimado, fosforoPresente, potassioPresente)
       IN  /\ ligarBomba' = d.ligar
           /\ motivoDecisao' = d.motivo
    /\ passos' = Append(passos, Op("cascata", "avaliada"))
    /\ pc' = "acionar"
    /\ UNCHANGED <<releBomba, fosforoPresente, potassioPresente, valorLDR, phEstimado,
                   umidade, temperatura, releAntes>>

\* Line 99: digitalWrite(PINO_RELE_BOMBA, ligarBomba ? HIGH : LOW).
Acionar_AposRelatorio ==
    /\ pc = "acionar"
    /\ releBomba' = (IF ligarBomba THEN HIGH ELSE LOW)
    /\ passos' = passos \o <<Op("DECISAO", motivoDecisao),
                             Op("ESTADO DA BOMBA", IF ligarBomba THEN "LIGADA" ELSE "DESLIGADA"),
                             Op("digitalWrite", Nivel(IF ligarBomba THEN HIGH ELSE LOW))>>
    /\ pc' = "esperar"
    /\ UNCHANGED <<locais, releAntes>>

Acionar_Invertido ==
    /\ pc = "acionar"
    /\ releBomba' = (IF ligarBomba THEN LOW ELSE HIGH)
    /\ passos' = Append(passos, Op("digitalWrite", Nivel(IF ligarBomba THEN LOW ELSE HIGH)))
    /\ pc' = "relatar"
    /\ UNCHANGED <<locais, releAntes>>

Acionar ==
    /\ pc = "acionar"
    /\ releBomba' = (IF ligarBomba THEN HIGH ELSE LOW)
    /\ passos' = Append(passos, Op("digitalWrite", Nivel(IF ligarBomba THEN HIGH ELSE LOW)))
    /\ pc' = "relatar"
    /\ UNCHANGED <<locais, releAntes>>

\* Lines 102-110: the status report (the decision and the pump state lines).
Relatar ==
    /\ pc = "relatar"
    /\ passos' = passos \o <<Op("DECISAO", motivoDecisao),
                             Op("ESTADO DA BOMBA", IF ligarBomba THEN "LIGADA" ELSE "DESLIGADA")>>
    /\ pc' = "esperar"
    /\ UNCHANGED <<releBomba, locais, releAntes>>

\* Line 112: delay(3000), then loop() returns.
Esperar_Delay2000 ==
    /\ pc = "esperar"
    /\ passos' = Append(passos, Op("delay", "2000"))
    /\ pc' = "ler"
    /\ SairDoEscopo
    /\ UNCHANGED <<releBomba, releAntes>>

Esperar ==
    /\ pc = "esperar"
    /\ passos' = Append(passos, Op("delay", "3000"))
    /\ pc' = "ler"
    /\ SairDoEscopo
    /\ UNCHANGED <<releBomba, releAntes>>

\* The program never touches ref, which only remembers an earlier cycle for
\* the comparison of two cycles.
Next ==
    \/ Setup /\ UNCHANGED ref
    \/ LerSensores(RawSamples, UmidadeSamples, TemperaturaSamples) /\ UNCHANGED ref
    \/ FalhaDHT /\ UNCHANGED ref
    \/ RetornarFalha /\ UNCHANGED ref
    \/ LeituraValida /\ UNCHANGED ref
    \/ Decidir /\ UNCHANGED ref
    \/ Acionar /\ UNCHANGED ref
    \/ Relatar /\ UNCHANGED ref
    \/ Esperar /\ UNCHANGED ref

Spec == Init /\ [][Next]_vars

---------------------------------------------------------------------------
(* Two cycles compared: the same program on fewer readings, observed by    *)
(* Observar, which may remember one valid cycle when it ends and then      *)
(* counts the sensor-failure cycles that follow it.                        *)

MaxFalhas == 2

RawPar         == {1800, 2400}
UmidadePar     == {100, 180, 250, NAN}
TemperaturaPar == {-35, 248, NAN}

Observar ==
    IF ~ref.valido THEN
        \/ ref' = ref
        \/ /\ pc = "esperar"
           /\ ref' = [valido |-> TRUE, umidade |-> umidade, ph |-> phEstimado,
                      fosforo |-> fosforoPresente, potassio |-> potassioPresente,
                      ligar |-> ligarBomba, motivo |-> motivoDecisao,
                      temperatura |-> temperatura,
                      releAntes |-> releAntes, falhas |-> 0]
    ELSE IF pc = "validar" /\ (isnan(umidade) \/ isnan(temperatura)) THEN
        ref' = [ref EXCEPT !.falhas = IF @ < MaxFalhas THEN @ + 1 ELSE @]
    ELSE
        ref' = ref

NextPar ==
    \/ Setup /\ Observar
    \/ LerSensores(RawPar, UmidadePar, TemperaturaPar) /\ Observar
    \/ FalhaDHT /\ Observar
    \/ RetornarFalha /\ Observar
    \/ LeituraValida /\ Observar
    \/ Decidir /\ Observar
    \/ Acionar /\ Observar
    \/ Relatar /\ Observar
    \/ Esperar /\ Observar

SpecPar == Init /\ [][NextPar]_vars

---------------------------------------------------------------------------
(* The acquisition of lines 40-49 on every reading of the ADC, with one    *)
(* valid humidity and temperature, up to the validity check.               *)

RawTodos == 0..ADC_MAX

NextMap ==
    \/ Setup /\ UNCHANGED ref
    \/ LerSensores(RawTodos, {180}, {248}) /\ UNCHANGED ref
    \/ LeituraValida /\ UNCHANGED ref

SpecMap == Init /\ [][NextMap]_vars

---------------------------------------------------------------------------
(* The cascade of lines 61-96 as a function of its four inputs: it is      *)
(* entered with any valid humidity, any pH in tenths within [0.0, 14.0]    *)
(* (fractional values included, which line 43 itself never produces) and   *)
(* any flags, and run up to the relay write.                               *)

PhTodos == 0..(10 * PH_MAX)

InitCascata ==
    /\ pc = "decidir"
    /\ releBomba \in {LOW, HIGH}
    /\ releAntes = releBomba
    /\ fosforoPresente \in BOOLEAN
    /\ potassioPresente \in BOOLEAN
    /\ valorLDR = 0
    /\ phEstimado \in PhTodos
    /\ umidade \in UmidadeSamples \ {NAN}
    /\ temperatura = 248
    /\ ligarBomba = FALSE
    /\ motivoDecisao = MOTIVO_INICIAL
    /\ passos = <<Op("leitura", "sensores")>>
    /\ ref = NENHUM

NextCascata ==
    \/ Decidir /\ UNCHANGED ref
    \/ Acionar /\ UNCHANGED ref

SpecCascata == InitCascata /\ [][NextCascata]_vars


---------------------------------------------------------------------------
(* Vocabulary of the properties *)

LeiturasValidas == ~isnan(umidade) /\ ~isnan(temperatura)

\* The cascade of the current call has run.
Decidido == pc \in {"acionar", "relatar", "esperar"}

\* The relay has been written with the decision of the current call.
Acionado == pc \in {"relatar", "esperar"}

Ops(nome) == {i \in 1..Len(passos) : passos[i].op = nome}

\* The level of the last digitalWrite of the current call, if any.
UltimaEscrita ==
    LET w == Ops("digitalWrite")
    IN  IF w = {} THEN "nenhuma"
        ELSE passos[CHOOSE i \in w : \A j \in w : j <= i].arg

SemRelatorio == Ops("DECISAO") = {} /\ Ops("ESTADO DA BOMBA") = {}

---------------------------------------------------------------------------
\* C1 - Emergency override: in a cycle with valid readings and humidity below
\* 15.0 the cascade leaves ligarBomba true and the relay is written HIGH,
\* whatever the estimated pH and the two nutrient flags are.
C1_EmergencyOverride ==
    (LeiturasValidas /\ umidade < 150) =>
        /\ Decidido => ligarBomba = TRUE
        /\ Acionado => releBomba = HIGH /\ UltimaEscrita = "HIGH"

C1_Witness ==
    /\ pc = "esperar" /\ umidade < 150 /\ phEstimado > 75
    /\ ~fosforoPresente /\ ~potassioPresente
    /\ releBomba = HIGH

\* C2 - Sensor-failure fail-safe: when the humidity or the temperature is NaN
\* the relay is written LOW whatever it held before, the cascade is not run,
\* nothing of the status report is printed, and the call returns after the
\* warning, the write and the 2000 ms delay alone.
C2_SensorFailSafe ==
    /\ Decidido \/ pc = "decidir" => LeiturasValidas
    /\ pc = "esperar_falha" =>
          /\ releBomba = LOW /\ UltimaEscrita = "LOW"
          /\ Ops("cascata") = {} /\ SemRelatorio
          /\ ligarBomba = FALSE /\ motivoDecisao = MOTIVO_INICIAL
    /\ (pc = "ler" /\ Ops("Serial.println") # {}) =>
          /\ releBomba = LOW
          /\ Ops("cascata") = {} /\ SemRelatorio
          /\ passos = <<Op("leitura", "sensores"), Op("Serial.println", AVISO_DHT),
                        Op("digitalWrite", "LOW"), Op("delay", "2000")>>

C2_Witness ==
    /\ pc = "esperar_falha" /\ releAntes = HIGH /\ releBomba = LOW
    /\ isnan(temperatura) /\ ~isnan(umidade)

\* C3 - Critical pH shutoff: in a valid cycle with humidity at least 15.0 and
\* estimated pH below 4.5 or above 7.5, ligarBomba is false and the relay is
\* written LOW, for every such humidity and every nutrient combination.
C3_CriticalPhShutoff ==
    (LeiturasValidas /\ umidade >= 150 /\ (phEstimado < 45 \/ phEstimado > 75)) =>
        /\ Decidido => ligarBomba = FALSE
        /\ Acionado => releBomba = LOW /\ UltimaEscrita = "LOW"

C3_Witness ==
    /\ pc = "esperar" /\ umidade = 150 /\ phEstimado < 45
    /\ fosforoPresente /\ potassioPresente
    /\ releAntes = HIGH /\ releBomba = LOW

\* C4 - Low humidity with ideal pH: in a valid cycle with 15.0 <= humidity <
\* 20.0 and 5.5 <= pH <= 6.5, ligarBomba is true for all four combinations
\* of the phosphorus and potassium flags.
C4_LowHumidityIdealPh ==
    (LeiturasValidas /\ umidade >= 150 /\ umidade < 200
        /\ phEstimado >= 55 /\ phEstimado <= 65) =>
        (Decidido => ligarBomba = TRUE)

C4_Witness ==
    /\ pc = "esperar" /\ umidade >= 150 /\ umidade < 200
    /\ phEstimado >= 55 /\ phEstimado <= 65
    /\ ~fosforoPresente /\ ~potassioPresente
    /\ ligarBomba = TRUE

\* C5 - Low humidity with a pH that is neither ideal nor critical: in a valid
\* cycle with 15.0 <= humidity < 20.0 and 4.5 <= pH < 5.5 or 6.5 < pH <= 7.5,
\* ligarBomba is false whatever the nutrient flags are.
C5_LowHumidityNonIdealPh ==
    (LeiturasValidas /\ umidade >= 150 /\ umidade < 200
        /\ ((phEstimado >= 45 /\ phEstimado < 55) \/ (phEstimado > 65 /\ phEstimado <= 75))) =>
        (Decidido => ligarBomba = FALSE)

C5_Witness ==
    /\ pc = "esperar" /\ umidade >= 150 /\ umidade < 200
    /\ phEstimado > 65 /\ phEstimado <= 75
    /\ fosforoPresente /\ potassioPresente
    /\ ligarBomba = FALSE

\* C6 - No irrigation at or above 20.0: in a valid cycle with 4.5 <= pH <= 7.5
\* and humidity >= 20.0, ligarBomba is false, above 30.0 as well as within
\* [20.0, 30.0], even with an ideal pH and both nutrients present.
C6_NoIrrigationFromMinimum ==
    (LeiturasValidas /\ phEstimado >= 45 /\ phEstimado <= 75 /\ umidade >= 200) =>
        (Decidido => ligarBomba = FALSE)

C6_Witness ==
    /\ pc = "esperar" /\ umidade >= 200 /\ umidade <= 300
    /\ phEstimado >= 55 /\ phEstimado <= 65
    /\ fosforoPresente /\ potassioPresente
    /\ ligarBomba = FALSE /\ releBomba = LOW

\* Inside a call of loop(), after the sensors have been read.
Lido == pc \in {"validar", "esperar_falha", "decidir", "acionar", "relatar", "esperar"}

\* C7 - Analog-to-pH mapping: for every raw reading in [0, 4095] the pH used
\* by the decision is the linear rescale raw * 14.0 / 4095.0, fractional part
\* included.  In fixed point: phEstimado (tenths) is raw * 140 / 4095 rounded
\* to the nearest tenth, i.e. |phEstimado * 4095 - raw * 140| <= 4095 / 2.
\* The code calls the integer map (line 43), which truncates to a whole pH:
\* raw = 1000 gives 3.0 where the rescale gives 3.4.
C7_LinearRescale ==
    Lido =>
        LET erro == phEstimado * ADC_MAX - valorLDR * 140
        IN  2 * (IF erro < 0 THEN -erro ELSE erro) <= ADC_MAX

\* C8 - Dead-band keeps the relay: in a valid cycle with humidity within
\* [20.0, 30.0] (and a pH that is not critical, so that the default branch of
\* the cascade is the one taken) the relay after the write equals the relay
\* before the cycle.  The code writes LOW in the dead-band (lines 94, 99), so
\* a pump switched on by the preceding cycle is switched off.
C8_DeadBandKeepsRelay ==
    (Acionado /\ LeiturasValidas /\ umidade >= 200 /\ umidade <= 300
        /\ phEstimado >= 45 /\ phEstimado <= 75) =>
        releBomba = releAntes

\* C9 - Stateless, deterministic policy: two valid cycles with the same
\* humidity, pH and nutrient flags end the cascade with the same ligarBomba
\* and the same motivoDecisao, whatever the relay held before either cycle
\* and whatever cycles, sensor failures included, ran in between.
C9_SameSnapshotSameDecision ==
    (Decidido /\ ref.valido) =>
        ((umidade = ref.umidade /\ phEstimado = ref.ph
            /\ fosforoPresente = ref.fosforo /\ potassioPresente = ref.potassio) =>
            (ligarBomba = ref.ligar /\ motivoDecisao = ref.motivo))

C9_Witness ==
    /\ Decidido /\ ref.valido
    /\ umidade = ref.umidade /\ phEstimado = ref.ph
    /\ fosforoPresente = ref.fosforo /\ potassioPresente = ref.potassio
    /\ releAntes # ref.releAntes
    /\ ref.falhas >= 2

\* C10 - Threshold edges of the cascade: humidity exactly 15.0 is not an
\* emergency (off with pH 8.0, on with pH 6.0); humidity exactly 20.0 and
\* exactly 30.0 are idle with the dead-band reason, not the high-humidity one;
\* pH exactly 4.5 and 7.5 are not critical; pH exactly 5.5 and 6.5 are ideal,
\* so with 15.0 <= humidity < 20.0 they switch the pump on.
C10_ThresholdEdges ==
    Decidido =>
        /\ umidade = 150 => motivoDecisao # MOTIVO_EMERGENCIA
        /\ (umidade = 150 /\ phEstimado = 80) => ligarBomba = FALSE
        /\ (umidade = 150 /\ phEstimado = 60) => ligarBomba = TRUE
        /\ (umidade \in {200, 300} /\ phEstimado >= 45 /\ phEstimado <= 75) =>
              (ligarBomba = FALSE /\ motivoDecisao = MOTIVO_OK)
        /\ phEstimado \in {45, 75} => motivoDecisao # MOTIVO_PH_CRITICO
        /\ (phEstimado \in {45, 75} /\ umidade >= 150 /\ umidade < 200) =>
              motivoDecisao = MOTIVO_PH_FORA
        /\ (phEstimado \in {55, 65} /\ umidade >= 150 /\ umidade < 200) =>
              ligarBomba = TRUE

C10_Witness ==
    /\ Acionado /\ umidade = 150 /\ phEstimado = 55
    /\ ligarBomba = TRUE /\ releBomba = HIGH

\* A call of loop() has returned (passos holds what that call did).
CicloTerminado == pc = "ler" /\ Len(passos) > 0 /\ passos[1].op = "leitura"

\* C11 - The relay is written exactly once per cycle: no write before the
\* validity check and the cascade, one write (LOW) in a sensor-failure cycle,
\* one write (the decision) in a valid cycle, and a cycle that has ended has
\* made exactly one write.
C11_OneRelayWritePerCycle ==
    /\ pc \in {"validar", "decidir", "acionar"} => Ops("digitalWrite") = {}
    /\ pc = "esperar_falha" =>
          (Cardinality(Ops("digitalWrite")) = 1 /\ UltimaEscrita = "LOW")
    /\ Acionado =>
          (Cardinality(Ops("digitalWrite")) = 1 /\ UltimaEscrita = Nivel(ligarBomba))
    /\ CicloTerminado => Cardinality(Ops("digitalWrite")) = 1

C11_Witness ==
    /\ CicloTerminado /\ Ops("cascata") # {} /\ UltimaEscrita = "HIGH"
    /\ Cardinality(Ops("digitalWrite")) = 1

\* C12 - For every raw reading in [0, 4095] the estimated pH lies within
\* [0.0, 14.0].
C12_PhWithinRange ==
    Lido => (valorLDR \in 0..4095 /\ phEstimado >= 0 /\ phEstimado <= 140)

C12_Witness ==
    /\ pc = "decidir" /\ valorLDR = 4095 /\ phEstimado = 140

\* C13 - First match wins, with a reason that names the rule: every valid
\* snapshot ends the cascade with exactly one of the eight outcomes, the one
\* of the first rule that holds in the order emergency, critical pH,
\* low-humidity branch (normal / reduced / minimal / pH outside the ideal
\* band), high-humidity stop, default.
C13_FirstMatchWins ==
    (Decidido /\ LeiturasValidas) =>
        LET crit  == phEstimado < 45 \/ phEstimado > 75
            ideal == phEstimado >= 55 /\ phEstimado <= 65
            baixa == umidade >= 150 /\ umidade < 200 /\ ~crit
            P     == fosforoPresente
            K     == potassioPresente
        IN  /\ motivoDecisao \in {MOTIVO_EMERGENCIA, MOTIVO_PH_CRITICO, MOTIVO_NORMAL,
                                  MOTIVO_REDUZIDA, MOTIVO_MINIMA, MOTIVO_PH_FORA,
                                  MOTIVO_ALTA, MOTIVO_OK}
            /\ ligarBomba = (motivoDecisao \in {MOTIVO_EMERGENCIA, MOTIVO_NORMAL,
                                                MOTIVO_REDUZIDA, MOTIVO_MINIMA})
            /\ umidade < 150 => motivoDecisao = MOTIVO_EMERGENCIA
            /\ (umidade >= 150 /\ crit) => motivoDecisao = MOTIVO_PH_CRITICO
            /\ (baixa /\ ideal /\ P /\ K) => motivoDecisao = MOTIVO_NORMAL
            /\ (baixa /\ ideal /\ (P # K)) => motivoDecisao = MOTIVO_REDUZIDA
            /\ (baixa /\ ideal /\ ~P /\ ~K) => motivoDecisao = MOTIVO_MINIMA
            /\ (baixa /\ ~ideal) => motivoDecisao = MOTIVO_PH_FORA
            /\ (umidade > 300 /\ ~crit) => motivoDecisao = MOTIVO_ALTA
            /\ (umidade >= 200 /\ umidade <= 300 /\ ~crit) => motivoDecisao = MOTIVO_OK

C13_Witness ==
    /\ pc = "esperar" /\ umidade > 300 /\ phEstimado > 75
    /\ motivoDecisao = MOTIVO_PH_CRITICO /\ ligarBomba = FALSE

\* C14 - Order of the steps of a cycle: reading, validity check, cascade,
\* relay write, status report, delay.  Nothing is written to the relay before
\* the readings are validated, and the report comes after the relay write and
\* reports the decision that was written.
C14_StepOrder ==
    LET escrita == Op("digitalWrite", Nivel(ligarBomba))
        estado  == Op("ESTADO DA BOMBA", IF ligarBomba THEN "LIGADA" ELSE "DESLIGADA")
    IN  /\ pc = "validar" => passos = <<Op("leitura", "sensores")>>
        /\ pc = "decidir" => (LeiturasValidas /\ passos = <<Op("leitura", "sensores")>>)
        /\ pc = "acionar" =>
              passos = <<Op("leitura", "sensores"), Op("cascata", "avaliada")>>
        /\ pc = "relatar" =>
              /\ passos = <<Op("leitura", "sensores"), Op("cascata", "avaliada"), escrita>>
              /\ releBomba = ligarBomba
        /\ pc = "esperar" =>
              /\ passos = <<Op("leitura", "sensores"), Op("cascata", "avaliada"), escrita,
                            Op("DECISAO", motivoDecisao), estado>>
              /\ releBomba = ligarBomba
        /\ (CicloTerminado /\ Ops("cascata") # {}) =>
              /\ Len(passos) = 6
              /\ passos[2] = Op("cascata", "avaliada")
              /\ passos[3].op = "digitalWrite"
              /\ passos[4].op = "DECISAO"
              /\ passos[5].op = "ESTADO DA BOMBA"
              /\ passos[5].arg = (IF passos[3].arg = "HIGH" THEN "LIGADA" ELSE "DESLIGADA")
              /\ passos[6] = Op("delay", "3000")

C14_Witness ==
    /\ CicloTerminado /\ Len(passos) = 6
    /\ passos[3] = Op("digitalWrite", "HIGH")
    /\ passos[5] = Op("ESTADO DA BOMBA", "LIGADA")
    /\ passos[6] = Op("delay", "3000")

\* C15 - Temperature is informative only: two valid cycles that differ only
\* in their temperature reach the same decision and write the same level to
\* the relay; a NaN temperature with a valid humidity makes the cycle a
\* sensor-failure cycle (relay LOW, cascade not run).
C15_TemperatureInformativeOnly ==
    /\ (Decidido /\ ref.valido) =>
          ((umidade = ref.umidade /\ phEstimado = ref.ph
              /\ fosforoPresente = ref.fosforo /\ potassioPresente = ref.potassio
              /\ temperatura # ref.temperatura) =>
              /\ ligarBomba = ref.ligar /\ motivoDecisao = ref.motivo
              /\ Acionado => (releBomba = ref.ligar /\ UltimaEscrita = Nivel(ref.ligar)))
    /\ (Lido /\ pc # "validar" /\ isnan(temperatura) /\ ~isnan(umidade)) =>
          /\ pc = "esperar_falha"
          /\ releBomba = LOW /\ UltimaEscrita = "LOW"
          /\ Ops("cascata") = {}

C15_Witness ==
    /\ Acionado /\ ref.valido
    /\ umidade = ref.umidade /\ phEstimado = ref.ph
    /\ fosforoPresente = ref.fosforo /\ potassioPresente = ref.potassio
    /\ temperatura < 0 /\ ref.temperatura > 0
    /\ ligarBomba = TRUE /\ releBomba = HIGH

\* The delays among the operations of seq, in order.
Atrasos(seq) == SelectSeq(seq, LAMBDA o : o.op = "delay")

\* What C16 requires of every step of the program.
PassoDeAtraso ==
    /\ pc = "setup" =>
          /\ pc' = "ler"
          /\ Atrasos(passos') = <<Op("delay", "2000")>>
          /\ passos'[Len(passos')] = Op("delay", "2000")
    /\ pc = "esperar" =>
          /\ LeiturasValidas
          /\ pc' = "ler"
          /\ Atrasos(passos') = <<Op("delay", "3000")>>
          /\ passos'[Len(passos')] = Op("delay", "3000")
    /\ pc = "esperar_falha" =>
          /\ ~LeiturasValidas
          /\ pc' = "ler"
          /\ Atrasos(passos') = <<Op("delay", "2000")>>
          /\ passos'[Len(passos')] = Op("delay", "2000")
    /\ pc' # "ler" => Atrasos(passos') = <<>>
    /\ pc = "ler" => (pc' = "validar" /\ passos' = <<Op("leitura", "sensores")>>)

\* C16 - Fixed delays: setup ends with exactly one delay, of 2000 ms; a valid
\* cycle ends with exactly one delay, of 3000 ms; a sensor-failure cycle ends
\* with exactly one delay, of 2000 ms, and no 3000 ms one; no delay happens
\* anywhere else; the step that follows a delay is the acquisition of the
\* next cycle, and a next step always exists (the loop never halts).
C16_FixedDelays == [](ENABLED <<Next>>_vars) /\ [][PassoDeAtraso]_vars

C16_Witness ==
    /\ CicloTerminado /\ Ops("cascata") = {}
    /\ Atrasos(passos) = <<Op("delay", "2000")>>
    /\ passos[Len(passos)] = Op("delay", "2000")

\* C17 - The relay over any run: it is LOW when setup completes, and when a
\* cycle has done its work (and through the delay that follows) it is HIGH
\* exactly when the readings were valid and the humidity was below 15.0, or
\* within [15.0, 20.0) with a pH within [5.5, 6.5].  So it is never HIGH
\* after a sensor failure, never HIGH with humidity >= 20.0, and HIGH with a
\* critical pH only when the humidity is below 15.0.
C17_RelayCharacterisation ==
    /\ (pc = "ler" /\ ~CicloTerminado) => releBomba = LOW
    /\ pc \in {"esperar", "esperar_falha"} =>
          (releBomba = HIGH <=>
              /\ LeiturasValidas
              /\ \/ umidade < 150
                 \/ /\ umidade >= 150 /\ umidade < 200
                    /\ phEstimado >= 55 /\ phEstimado <= 65)
    /\ CicloTerminado =>
          /\ releBomba = (UltimaEscrita = "HIGH")
          /\ Ops("cascata") = {} => releBomba = LOW
          /\ releBomba = HIGH =>
                passos[4].arg \in {MOTIVO_EMERGENCIA, MOTIVO_NORMAL,
                                   MOTIVO_REDUZIDA, MOTIVO_MINIMA}

C17_Witness ==
    /\ pc = "esperar" /\ releBomba = HIGH
    /\ umidade < 150 /\ phEstimado > 75 /\ releAntes = LOW

===========================================================================
